---------------------------- MODULE Spec2Model ----------------------------
(***************************************************************************)
(* flowMC Sampler (src/src/flowMC/sampler/Sampler.py): the orchestration  *)
(* of local sampling, flow training and global (flow) proposals, with the  *)
(* summary accumulators and the random keys the Sampler object holds.      *)
(*                                                                         *)
(* The numeric kernels (local sampler, autotune, flow trainer, global      *)
(* sampler, flow sampling) are not part of src/; as JAX kernels they are   *)
(* pure functions of the key and the arguments they are given, and are     *)
(* modelled so.                                                            *)
(***************************************************************************)
EXTENDS Integers, Sequences, FiniteSets, TLC

(* ------------------------------ bounds -------------------------------- *)
\* API calls made on one Sampler object
MaxCalls == 2
\* n_loop_training and n_loop_production range over 0..MaxLoop
MaxLoop == 2
\* coordinates of a position range over 0..MaxPos
MaxPos == 3
\* reset() calls that may still follow once MaxCalls calls have been made
MaxClosingResets == 1
\* the constructor arguments the orchestration model fixes
NDim == 2
NChains == 2
NLocalSteps == 2
NGlobalSteps == 3
\* bounds of the sample-selection inputs (SpecSelect)
MaxSelChains == 3
MaxSelSteps == 2
MaxSelSamples == 4
MaxLp == 2

(* ------------------- constructor defaults (Sampler.py) ---------------- *)
DefaultEpochs == 5
DefaultMaxSamples == 10000
DefaultBatchSize == 10
DefaultMaxIter == 10

(* ------------------------------ helpers ------------------------------- *)
\* an array: the sequence f as a tuple of evaluated entries
Array(f) == SubSeq(f, 1, Len(f))

RECURSIVE SumFirst(_, _)
SumFirst(s, n) == IF n = 0 THEN 0 ELSE s[n] + SumFirst(s, n - 1)

SumSeq(s) == SumFirst(s, Len(s))

RECURSIVE Flatten(_)
\* reshape(-1, n_dim): the rows of the chains one after the other
Flatten(chains) == IF chains = <<>> THEN <<>> ELSE Head(chains) \o Flatten(Tail(chains))

MaxOf(s) == CHOOSE v \in {s[i] : i \in 1..Len(s)} : \A i \in 1..Len(s) : s[i] <= v

\* positions[:, -1]
LastStep(positions) == Array([c \in DOMAIN positions |-> positions[c][Len(positions[c])]])

\* jnp.append(a, b, axis=1) on per-chain step sequences
AppendSteps(a, b) == Array([c \in DOMAIN a |-> a[c] \o b[c]])

\* jnp.empty((n_chains, 0, ...))
EmptySteps(n) == Array([c \in 1..n |-> <<>>])

Max2(a, b) == IF a >= b THEN a ELSE b

\* python s[-k:] for k >= 0: -0 is 0, so k = 0 keeps the whole sequence
LastK(s, k) == IF k = 0 THEN s ELSE SubSeq(s, Max2(1, Len(s) - k + 1), Len(s))

(* ----------------------- external capabilities ------------------------ *)
\* The likelihood handed to the constructor: an isotropic Gaussian
\* log-density centred at the origin, scaled to integers.
Likelihood(x) == 0 - SumSeq([d \in 1..Len(x) |-> x[d] * x[d]])

\* the pseudo-random bit a key yields for chain c at step s: 1 accepts
Draw(key, c, s) == (key + c + s) % 2

\* how many of the steps 1..s of chain c the key accepts
Accepted(key, c, s) == (s + 1 - ((key + c) % 2)) \div 2

\* a consumed key is replaced by the key the kernel returns
NextKey(key) == key + 1

Shift(x, r) == Array([d \in 1..Len(x) |-> (x[d] + r) % (MaxPos + 1)])

\* the position of chain c after s local steps: every accepted step moves
\* the chain by the step size, a rejected one leaves it where it is
LocalPath(key, c, s, x0, params) == Shift(x0, Accepted(key, c, s) * params)

\* local_sampler(rng_keys, n_steps, initial_position, params)
\*   -> (rng_keys', positions, log_prob, acceptance, _)
LocalSamplerKernel(key, n_steps, initial_position, params) ==
    [key |-> NextKey(key),
     positions |-> Array([c \in DOMAIN initial_position |->
                      Array([s \in 1..n_steps |->
                          LocalPath(key, c, s, initial_position[c], params)])]),
     log_prob |-> Array([c \in DOMAIN initial_position |->
                     Array([s \in 1..n_steps |->
                         Likelihood(LocalPath(key, c, s, initial_position[c], params))])]),
     acceptance |-> Array([c \in DOMAIN initial_position |->
                       Array([s \in 1..n_steps |-> Draw(key, c, s)])])]

\* local_autotune(local_sampler, rng_keys, n_steps, initial_position, params, max_iter)
\*   -> (params', local_sampler')
AutotuneKernel(sampler, key, n_steps, initial_position, params, max_iter) ==
    [params |-> params + 1 + (key % 2),
     sampler |-> [sampler EXCEPT !.tuned = @ + 1]]

\* batches of one epoch: ceil(n / batch_size)
Batches(n, batch_size) == (n + batch_size - 1) \div batch_size

\* nf_training_loop(rng, state, variables, data, n_epochs, batch_size)
\*   -> (rng', state', loss_values[n_epochs])
TrainFlowKernel(key, st, vars, data, n_epochs, batch_size) ==
    LET n == Len(data)
        steps == n_epochs * Batches(n, batch_size)
    IN  [key |-> NextKey(key),
         state |-> [step |-> st.step + steps,
                    params |-> IF steps = 0 THEN st.params
                               ELSE st.params + 1 + ((key + n) % 2)],
         loss |-> Array([e \in 1..n_epochs |-> (key + n + e) % 4])]

\* the flow's candidate for chain c at global step s
FlowDraw(key, params, c, s, n_dim) ==
    Array([d \in 1..n_dim |-> (key + params + c + s * d) % (MaxPos + 1)])

\* independence Metropolis: an accepted candidate replaces the position, a
\* rejected one leaves the chain at the last accepted candidate
GlobalPath(key, params, c, s, x0) ==
    IF Draw(key + params, c, s) = 1 THEN FlowDraw(key, params, c, s, Len(x0))
    ELSE IF s > 1 THEN FlowDraw(key, params, c, s - 1, Len(x0))
    ELSE x0

\* global_sampler(rng, n_steps, params, variables, likelihood_vec, initial_position)
\*   -> (rng', nf_chain, log_prob, log_prob_nf, acceptance)
GlobalSamplerKernel(key, n_steps, params, vars, initial_position) ==
    [key |-> NextKey(key),
     nf_chain |-> Array([c \in DOMAIN initial_position |->
                     Array([s \in 1..n_steps |->
                         GlobalPath(key, params, c, s, initial_position[c])])]),
     log_prob |-> Array([c \in DOMAIN initial_position |->
                     Array([s \in 1..n_steps |->
                         Likelihood(GlobalPath(key, params, c, s, initial_position[c]))])]),
     acceptance |-> Array([c \in DOMAIN initial_position |->
                       Array([s \in 1..n_steps |-> Draw(key + params, c, s)])])]

\* sample_nf(model, params, rng, n_samples, variables) -> samples
SampleNfKernel(params, key, n_samples, vars, n_dim) ==
    Array([k \in 1..n_samples |-> FlowDraw(key, params, k, 1, n_dim)])

\* nf_model.init(key, ones((1, n_dim)))["variables"]: zero mean, unit covariance
InitVariables(n_dim) ==
    [base_mean |-> Array([d \in 1..n_dim |-> <<0, 1>>]),
     base_cov |-> Array([i \in 1..n_dim |->
                    Array([j \in 1..n_dim |-> <<IF i = j THEN 1 ELSE 0, 1>>])])]

(* --------------------- sampling_loop: sample selection ---------------- *)
\* jnp.max(log_prob_output, axis=1)
MaxLogProb(log_prob) == Array([c \in DOMAIN log_prob |-> MaxOf(log_prob[c])])

\* the k-th smallest (k = 1..n) of the values of m
KthSmallest(m, k) ==
    CHOOSE v \in {m[c] : c \in DOMAIN m} :
        /\ Cardinality({c \in DOMAIN m : m[c] < v}) < k
        /\ k <= Cardinality({c \in DOMAIN m : m[c] <= v})

\* jnp.quantile(m, q), linear interpolation, times q.den (q = q.num / q.den)
QuantileScaled(m, q) ==
    LET n == Cardinality(DOMAIN m)
        h == q.num * (n - 1)
        lo == h \div q.den
        r == h % q.den
        a == KthSmallest(m, lo + 1)
        b == IF r = 0 THEN a ELSE KthSmallest(m, lo + 2)
    IN  a * q.den + r * (b - a)

\* KeepMask with a fault: chains at the cut are kept too
KeepMaskInclusive(max_log_prob, q) ==
    LET cut == QuantileScaled(max_log_prob, q)
    IN  {c \in DOMAIN max_log_prob : max_log_prob[c] * q.den >= cut}

\* the boolean mask max_log_prob > cut
KeepMask(max_log_prob, q) ==
    LET cut == QuantileScaled(max_log_prob, q)
    IN  {c \in DOMAIN max_log_prob : max_log_prob[c] * q.den > cut}

\* positions[mask]: the rows of the mask, in chain order
Rows(positions, mask) ==
    Array([i \in 1..Cardinality(mask) |->
        positions[CHOOSE c \in mask : Cardinality({k \in mask : k < c}) = i - 1]])

\* lines 181-186
CutChains(positions, log_prob_output, keep_quantile) ==
    IF keep_quantile.num > 0
    THEN Rows(positions, KeepMask(MaxLogProb(log_prob_output), keep_quantile))
    ELSE Rows(positions, DOMAIN positions)

\* lines 187-193
FlatChain(cut_chains, n_steps, max_samples, n_chains) ==
    LET chain_size == Len(cut_chains) * n_steps
    IN  IF chain_size > max_samples
        THEN Flatten(Array([i \in 1..Len(cut_chains) |->
                              LastK(cut_chains[i], max_samples \div n_chains)]))
        ELSE Flatten(cut_chains)

(* ------------------- sampling_loop: normalisation --------------------- *)
\* the sum over the pool of coordinate i times coordinate j
CrossSum(flat_chain, i, j) ==
    SumSeq([k \in 1..Len(flat_chain) |-> flat_chain[k][i] * flat_chain[k][j]])

\* the sum over the pool of coordinate d
ColSum(flat_chain, d) == SumSeq([k \in 1..Len(flat_chain) |-> flat_chain[k][d]])

\* jnp.mean(flat_chain, axis=0): per coordinate the fraction <<sum, n>>
BaseMean(flat_chain, n_dim) ==
    Array([d \in 1..n_dim |-> <<ColSum(flat_chain, d), Len(flat_chain)>>])

\* jnp.cov(flat_chain.T): entry (i, j) is the fraction
\*   (n sum_k x_ki x_kj - S_i S_j) / (n (n - 1)),  S_d the sum of coordinate d
BaseCov(flat_chain, n_dim) ==
    Array([i \in 1..n_dim |-> Array([j \in 1..n_dim |->
        <<Len(flat_chain) * CrossSum(flat_chain, i, j)
            - ColSum(flat_chain, i) * ColSum(flat_chain, j),
          Len(flat_chain) * (Len(flat_chain) - 1)>>])])

\* lines 195-198: the two statistics are overwritten, the other entries kept
NewVariables(vars, flat_chain, n_dim) ==
    [vars EXCEPT !.base_mean = BaseMean(flat_chain, n_dim),
                 !.base_cov = BaseCov(flat_chain, n_dim)]

\* lines 200-202: (x - base_mean) / sqrt(diag(base_cov)), kept as the exact
\* pair of the difference (a fraction) and the variance under the root
Standardize(flat_chain, vars, n_dim) ==
    Array([k \in 1..Len(flat_chain) |->
        Array([d \in 1..n_dim |->
            [diff |-> <<flat_chain[k][d] * vars.base_mean[d][2] - vars.base_mean[d][1],
                        vars.base_mean[d][2]>>,
             var |-> vars.base_cov[d][d]]])])

(* ------------------------------- state -------------------------------- *)
VARIABLES
    config,          \* the constructor arguments kept on self (lines 86-98, 107)
    sampler_params,  \* self.sampler_params
    local_sampler,   \* self.local_sampler
    rng_keys_mcmc,   \* self.rng_keys_mcmc
    rng_keys_nf,     \* self.rng_keys_nf
    state,           \* self.state: the flow's train state
    variables,       \* self.variables: the flow's normalisation variables
    summary,         \* self.summary
    pc,              \* the statement the single thread of control is at
    phase,           \* the phase of the API call in progress (or last made)
    frame,           \* the locals of sample / sampling_loop in progress
    used,            \* what the round in progress (or the last one) standardised
                     \* with and handed to the flow trainer and the global sampler
    ret,             \* the value the last completed API call returned (a
                     \* summary dict is returned by reference)
    rounds,          \* sampling_loop invocations of the API call in progress
    trace,           \* every kernel call made so far, with its arguments
    calls            \* the API calls made so far, by name

vars == <<config, sampler_params, local_sampler, rng_keys_mcmc, rng_keys_nf, state,
          variables, summary, pc, phase, frame, used, ret, rounds, trace, calls>>

\* everything the Sampler object holds besides its summary
self_rest == <<config, sampler_params, local_sampler, rng_keys_mcmc, rng_keys_nf,
               state, variables>>

NoFrame ==
    [initial_position |-> <<>>, last_step |-> <<>>, i |-> 0, caller |-> "none",
     training |-> FALSE, loop_position |-> <<>>, positions |-> <<>>,
     log_prob_output |-> <<>>, local_acceptance |-> <<>>, global_acceptance |-> <<>>,
     cut_chains |-> <<>>, flat_chain |-> <<>>]

\* no kernel of the round called yet
NoneUsed == [norm |-> <<>>, trainer |-> <<>>, trained |-> <<>>, proposal |-> <<>>]

\* nf_variable=None (line 72)
NoVariable == [given |-> FALSE, value |-> <<>>]

\* keep_quantile as a fraction
Quantiles == {[num |-> 0, den |-> 1], [num |-> 1, den |-> 2]}

\* the constructor arguments the model ranges over
Configs ==
    [n_dim : {NDim}, n_chains : {NChains},
     n_local_steps : {NLocalSteps}, n_global_steps : {NGlobalSteps},
     n_loop_training : 0..MaxLoop, n_loop_production : 0..MaxLoop,
     n_epochs : {DefaultEpochs}, max_samples : {DefaultMaxSamples},
     batch_size : {DefaultBatchSize}, keep_quantile : Quantiles,
     use_global : BOOLEAN, local_autotune : BOOLEAN, nf_variable : {NoVariable}]

\* the initial positions callers pass: chain c starts at (c, c, ...)
InitialPositions(cfg) ==
    {Array([c \in 1..cfg.n_chains |-> Array([d \in 1..cfg.n_dim |-> c % (MaxPos + 1)])])}

\* lines 118-133 and 325-340
EmptySummary(cfg) ==
    [training |-> [chains |-> EmptySteps(cfg.n_chains),
                   log_prob |-> EmptySteps(cfg.n_chains),
                   local_accs |-> EmptySteps(cfg.n_chains),
                   global_accs |-> EmptySteps(cfg.n_chains),
                   loss_vals |-> <<>>],
     production |-> [chains |-> EmptySteps(cfg.n_chains),
                     log_prob |-> EmptySteps(cfg.n_chains),
                     local_accs |-> EmptySteps(cfg.n_chains),
                     global_accs |-> EmptySteps(cfg.n_chains)]]

\* lines 101-105: self.variables after construction; with an nf_variable
\* the statement executed is self.variables = self.variables
ConstructedVariables(cfg) ==
    LET model_init == InitVariables(cfg.n_dim)
    IN  IF cfg.nf_variable.given THEN model_init ELSE model_init

\* Sampler.__init__
Construct(cfg) ==
    /\ config = cfg
    /\ sampler_params = 1
    /\ local_sampler = [likelihood |-> "likelihood", tuned |-> 0]
    /\ rng_keys_mcmc = 0
    /\ rng_keys_nf = 0
    /\ state = [step |-> 0, params |-> 0]
    /\ variables = ConstructedVariables(cfg)
    /\ summary = EmptySummary(cfg)

Init ==
    /\ \E cfg \in Configs : Construct(cfg)
    /\ pc = "idle"
    /\ phase = "None"
    /\ frame = NoFrame
    /\ used = NoneUsed
    /\ ret = "None"
    /\ rounds = <<>>
    /\ trace = <<>>
    /\ calls = <<>>

CanCall == pc = "idle" /\ Len(calls) < MaxCalls

\* reset() may be called
CanReset == pc = "idle" /\ Len(calls) < MaxCalls + MaxClosingResets

\* LocalSamplerTuning with a fault: the autotune runs whether supplied or not
LocalSamplerTuningAlways(n_steps, initial_position) ==
    LET r == AutotuneKernel(local_sampler, rng_keys_mcmc, n_steps, initial_position,
                            sampler_params, DefaultMaxIter)
    IN  /\ sampler_params' = r.params
        /\ local_sampler' = r.sampler
        /\ trace' = Append(trace, [kernel |-> "local_autotune", key |-> rng_keys_mcmc,
                                   stream |-> "mcmc", n_steps |-> n_steps,
                                   initial_position |-> initial_position,
                                   params |-> sampler_params, sampler |-> local_sampler,
                                   max_iter |-> DefaultMaxIter])

(* ------------------------ local_sampler_tuning ------------------------ *)
\* lines 279-284, as the change of (sampler_params, local_sampler, trace)
LocalSamplerTuning(n_steps, initial_position) ==
    IF config.local_autotune
    THEN LET r == AutotuneKernel(local_sampler, rng_keys_mcmc, n_steps, initial_position,
                                 sampler_params, DefaultMaxIter)
         IN  /\ sampler_params' = r.params
             /\ local_sampler' = r.sampler
             /\ trace' = Append(trace, [kernel |-> "local_autotune", key |-> rng_keys_mcmc,
                                        stream |-> "mcmc", n_steps |-> n_steps,
                                        initial_position |-> initial_position,
                                        params |-> sampler_params, sampler |-> local_sampler,
                                        max_iter |-> DefaultMaxIter])
    ELSE UNCHANGED <<sampler_params, local_sampler, trace>>

\* a caller invokes local_sampler_tuning(n_steps, initial_position) directly
LocalSamplerTuningCall ==
    /\ CanCall
    /\ \E ip \in InitialPositions(config) : LocalSamplerTuning(config.n_local_steps, ip)
    /\ calls' = Append(calls, "local_sampler_tuning")
    /\ phase' = "None"
    /\ rounds' = <<>>
    /\ ret' = "None"
    /\ UNCHANGED <<used, config, rng_keys_mcmc, rng_keys_nf, state, variables, summary,
                   pc, frame>>

(* ------------------------------- sample ------------------------------- *)
\* a caller invokes sample(initial_position)
SampleCall ==
    /\ CanCall
    /\ \E ip \in InitialPositions(config) :
          frame' = [NoFrame EXCEPT !.initial_position = ip]
    /\ pc' = "sample"
    /\ phase' = "LocalTuning"
    /\ rounds' = <<>>
    /\ calls' = Append(calls, "sample")
    /\ UNCHANGED <<used, self_rest, summary, ret, trace>>

\* MoreProduction with a fault: one iteration too many
MoreProductionOffByOne == frame.i <= config.n_loop_production

\* AfterTuning with a fault: global_sampler_tuning runs whatever use_global is
AfterTuningAlways == "global_sampler_tuning"

\* line 299: range(self.n_loop_training) has another element
MoreTraining == frame.i < config.n_loop_training

\* line 305: range(self.n_loop_production) has another element
MoreProduction == frame.i < config.n_loop_production

\* line 155: global_sampler_tuning runs only with use_global
AfterTuning == IF config.use_global THEN "global_sampler_tuning" ELSE "production_run"

\* lines 153-158 up to the first loop: tuning, then last_step = initial_position
SampleLocalTuning ==
    /\ pc = "sample"
    /\ LocalSamplerTuning(config.n_local_steps, frame.initial_position)
    /\ frame' = [frame EXCEPT !.last_step = frame.initial_position, !.i = 0]
    /\ pc' = AfterTuning
    /\ phase' = IF AfterTuning = "global_sampler_tuning" THEN "GlobalTuning"
                ELSE "Production"
    /\ UNCHANGED <<used, config, rng_keys_mcmc, rng_keys_nf, state, variables, summary, ret,
                   rounds, calls>>

\* the entry of sampling_loop(initial_position, training) from `caller`
EnterLoop(caller, position, training, log) ==
    /\ frame' = [frame EXCEPT !.caller = caller, !.training = training,
                              !.loop_position = position, !.positions = <<>>,
                              !.log_prob_output = <<>>, !.local_acceptance = <<>>,
                              !.global_acceptance = <<>>, !.cut_chains = <<>>,
                              !.flat_chain = <<>>]
    /\ used' = NoneUsed
    /\ rounds' = Append(log, [training |-> training, start |-> position,
                                 last |-> <<>>, caller |-> caller])
    /\ pc' = "local"

\* lines 299-300: one more iteration of the training loop
GlobalTuningIter ==
    /\ pc = "global_sampler_tuning"
    /\ MoreTraining
    /\ EnterLoop("global_sampler_tuning", frame.last_step, TRUE, rounds)
    /\ UNCHANGED <<self_rest, summary, phase, ret, trace, calls>>

\* line 301, then line 158 and 304: production_run(last_step) starts
GlobalTuningReturn ==
    /\ pc = "global_sampler_tuning"
    /\ ~MoreTraining
    /\ frame' = [frame EXCEPT !.i = 0]
    /\ pc' = "production_run"
    /\ phase' = "Production"
    /\ UNCHANGED <<used, self_rest, summary, ret, rounds, trace, calls>>

\* lines 305-306: one more iteration of the production loop
ProductionIter ==
    /\ pc = "production_run"
    /\ MoreProduction
    /\ EnterLoop("production_run", frame.last_step, FALSE, rounds)
    /\ UNCHANGED <<self_rest, summary, phase, ret, trace, calls>>

\* production_run and sample fall off their ends: both return None
ProductionReturn ==
    /\ pc = "production_run"
    /\ ~MoreProduction
    /\ frame' = NoFrame
    /\ pc' = "idle"
    /\ phase' = "Done"
    /\ ret' = "None"
    /\ UNCHANGED <<used, self_rest, summary, rounds, trace, calls>>

(* ---------------------------- sampling_loop --------------------------- *)
\* a caller invokes sampling_loop(initial_position, training) directly
SamplingLoopCall ==
    /\ CanCall
    /\ \E ip \in InitialPositions(config), training \in BOOLEAN :
          EnterLoop("api", ip, training, <<>>)
    /\ phase' = "None"
    /\ calls' = Append(calls, "sampling_loop")
    /\ UNCHANGED <<self_rest, summary, ret, trace>>

\* LoopLocal with a fault: the flow is trained in production rounds too
LoopLocalAlwaysTrains ==
    /\ pc = "local"
    /\ LET r == LocalSamplerKernel(rng_keys_mcmc, config.n_local_steps,
                                   frame.loop_position, sampler_params)
       IN  /\ rng_keys_mcmc' = r.key
           /\ frame' = [frame EXCEPT !.positions = r.positions,
                                     !.log_prob_output = r.log_prob,
                                     !.local_acceptance = r.acceptance]
           /\ trace' = Append(trace, [kernel |-> "local_sampler", key |-> rng_keys_mcmc,
                                      stream |-> "mcmc",
                                      n_steps |-> config.n_local_steps,
                                      initial_position |-> frame.loop_position,
                                      params |-> sampler_params,
                                      sampler |-> local_sampler,
                                      round |-> Len(rounds)])
    /\ pc' = IF config.use_global THEN "train" ELSE "append"
    /\ UNCHANGED <<used, config, sampler_params, local_sampler, rng_keys_nf, state, variables,
                   summary, phase, ret, rounds, calls>>

\* lines 173-177: the local sampler call
LoopLocal ==
    /\ pc = "local"
    /\ LET r == LocalSamplerKernel(rng_keys_mcmc, config.n_local_steps,
                                   frame.loop_position, sampler_params)
       IN  /\ rng_keys_mcmc' = r.key
           /\ frame' = [frame EXCEPT !.positions = r.positions,
                                     !.log_prob_output = r.log_prob,
                                     !.local_acceptance = r.acceptance]
           /\ trace' = Append(trace, [kernel |-> "local_sampler", key |-> rng_keys_mcmc,
                                      stream |-> "mcmc",
                                      n_steps |-> config.n_local_steps,
                                      initial_position |-> frame.loop_position,
                                      params |-> sampler_params,
                                      sampler |-> local_sampler,
                                      round |-> Len(rounds)])
    /\ pc' = IF config.use_global
             THEN (IF frame.training THEN "train" ELSE "global")
             ELSE "append"
    /\ UNCHANGED <<used, config, sampler_params, local_sampler, rng_keys_nf, state, variables,
                   summary, phase, ret, rounds, calls>>

\* lines 195-198: the local dict `variables` after the two assignments
NormVariables(flat_chain) == NewVariables(variables, flat_chain, config.n_dim)

\* lines 204-211: the arguments of the flow trainer, self.variables being
\* the frozen copy `frozen` of the local dict `norm`
TrainerArgs(frozen, norm, flat_chain) ==
    [key |-> rng_keys_nf, state |-> state, variables |-> frozen, norm |-> norm,
     data |-> Standardize(flat_chain, norm, config.n_dim),
     n_epochs |-> config.n_epochs, batch_size |-> config.batch_size]

\* lines 180-214: selection, normalisation, training, the loss row
LoopTrain ==
    /\ pc = "train"
    /\ frame' = [frame EXCEPT
                   !.cut_chains = CutChains(frame.positions, frame.log_prob_output,
                                            config.keep_quantile),
                   !.flat_chain = FlatChain(CutChains(frame.positions,
                                                      frame.log_prob_output,
                                                      config.keep_quantile),
                                            config.n_local_steps, config.max_samples,
                                            config.n_chains)]
    /\ variables' = NormVariables(frame'.flat_chain)
    /\ LET a == TrainerArgs(variables', variables', frame'.flat_chain)
           r == TrainFlowKernel(a.key, a.state, a.variables, a.data, a.n_epochs,
                                a.batch_size)
       IN  /\ rng_keys_nf' = r.key
           /\ state' = r.state
           /\ summary' = [summary EXCEPT !.training.loss_vals = Append(@, r.loss)]
           /\ used' = [used EXCEPT !.norm = a.norm,
                                   !.trainer = [state |-> a.state,
                                                variables |-> a.variables],
                                   !.trained = r.state]
           /\ trace' = Append(trace, [kernel |-> "nf_training_loop", key |-> a.key,
                                      stream |-> "nf", round |-> Len(rounds)])
    /\ pc' = "global"
    /\ UNCHANGED <<config, sampler_params, local_sampler, rng_keys_mcmc, phase, ret,
                   rounds, calls>>

\* GlobalArgs with a fault: the variables of the flow as it was constructed
GlobalArgsStale ==
    [key |-> rng_keys_nf, n_steps |-> config.n_global_steps, params |-> state.params,
     variables |-> InitVariables(config.n_dim),
     initial_position |-> LastStep(frame.positions)]

\* GlobalArgs with a fault: the global sampler starts where the round started
GlobalArgsFromStart ==
    [key |-> rng_keys_nf, n_steps |-> config.n_global_steps, params |-> state.params,
     variables |-> variables, initial_position |-> frame.loop_position]

\* lines 222-229: the arguments of the global sampler
GlobalArgs ==
    [key |-> rng_keys_nf, n_steps |-> config.n_global_steps, params |-> state.params,
     variables |-> variables, initial_position |-> LastStep(frame.positions)]

\* lines 216-233: the global sampler call and the two concatenations
LoopGlobal ==
    /\ pc = "global"
    /\ LET a == GlobalArgs
           r == GlobalSamplerKernel(a.key, a.n_steps, a.params, a.variables,
                                    a.initial_position)
       IN  /\ rng_keys_nf' = r.key
           /\ frame' = [frame EXCEPT
                          !.positions = AppendSteps(@, r.nf_chain),
                          !.log_prob_output = AppendSteps(@, r.log_prob),
                          !.global_acceptance = r.acceptance]
           /\ used' = [used EXCEPT !.proposal = [params |-> a.params,
                                                 variables |-> a.variables,
                                                 initial_position |-> a.initial_position]]
           /\ trace' = Append(trace, [kernel |-> "global_sampler", key |-> a.key,
                                      stream |-> "nf", round |-> Len(rounds)])
    /\ pc' = "append"
    /\ UNCHANGED <<config, sampler_params, local_sampler, rng_keys_mcmc, state, variables,
                   summary, phase, ret, rounds, calls>>

\* AppendRound with a fault: the round replaces the history
AppendRoundReplace(acc) ==
    LET a == [acc EXCEPT !.chains = frame.positions,
                         !.log_prob = frame.log_prob_output,
                         !.local_accs = frame.local_acceptance]
    IN  IF config.use_global
        THEN [a EXCEPT !.global_accs = frame.global_acceptance]
        ELSE a

\* AppendRound with a fault: the global acceptance is not recorded
AppendRoundNoGlobal(acc) ==
    [acc EXCEPT !.chains = AppendSteps(@, frame.positions),
                !.log_prob = AppendSteps(@, frame.log_prob_output),
                !.local_accs = AppendSteps(@, frame.local_acceptance)]

\* lines 235-262: the accumulator of the round, with the round appended
AppendRound(acc) ==
    LET a == [acc EXCEPT !.chains = AppendSteps(@, frame.positions),
                         !.log_prob = AppendSteps(@, frame.log_prob_output),
                         !.local_accs = AppendSteps(@, frame.local_acceptance)]
    IN  IF config.use_global
        THEN [a EXCEPT !.global_accs = AppendSteps(@, frame.global_acceptance)]
        ELSE a

\* Resume with a fault: global_sampler_tuning drops the returned last_step too
ResumeDropped(caller, last_step) ==
    CASE caller = "global_sampler_tuning" ->
            /\ frame' = [frame EXCEPT !.i = @ + 1]
            /\ pc' = "global_sampler_tuning"
            /\ UNCHANGED ret
      [] caller = "production_run" ->
            /\ frame' = [frame EXCEPT !.i = @ + 1]
            /\ pc' = "production_run"
            /\ UNCHANGED ret
      [] OTHER ->
            /\ frame' = NoFrame
            /\ pc' = "idle"
            /\ ret' = last_step

\* what the caller does with the returned last_step (lines 300 and 306)
Resume(caller, last_step) ==
    CASE caller = "global_sampler_tuning" ->
            /\ frame' = [frame EXCEPT !.last_step = last_step, !.i = @ + 1]
            /\ pc' = "global_sampler_tuning"
            /\ UNCHANGED ret
      [] caller = "production_run" ->
            /\ frame' = [frame EXCEPT !.i = @ + 1]
            /\ pc' = "production_run"
            /\ UNCHANGED ret
      [] OTHER ->
            /\ frame' = NoFrame
            /\ pc' = "idle"
            /\ ret' = last_step

\* LoopAppend with a fault: a production round is appended to both summaries
LoopAppendBoth ==
    /\ pc = "append"
    /\ summary' = IF frame.training
                  THEN [summary EXCEPT !.training = AppendRound(@)]
                  ELSE [summary EXCEPT !.training = [AppendRound(@) EXCEPT
                                                        !.loss_vals =
                                                            summary.training.loss_vals],
                                       !.production = AppendRound(@)]
    /\ rounds' = [rounds EXCEPT ![Len(rounds)].last = LastStep(frame.positions)]
    /\ Resume(frame.caller, LastStep(frame.positions))
    /\ UNCHANGED <<used, self_rest, phase, trace, calls>>

\* lines 235-265: the append to the summary and the return
LoopAppend ==
    /\ pc = "append"
    /\ summary' = IF frame.training
                  THEN [summary EXCEPT !.training = AppendRound(@)]
                  ELSE [summary EXCEPT !.production = AppendRound(@)]
    /\ rounds' = [rounds EXCEPT ![Len(rounds)].last = LastStep(frame.positions)]
    /\ Resume(frame.caller, LastStep(frame.positions))
    /\ UNCHANGED <<used, self_rest, phase, trace, calls>>

(* ------------------------- the other accessors ------------------------ *)
FlowSampleCounts == {2}

\* lines 314-322
SampleFlow ==
    /\ CanCall
    /\ \E n_samples \in FlowSampleCounts :
          /\ ret' = SampleNfKernel(state.params, rng_keys_nf, n_samples, variables,
                                   config.n_dim)
          /\ trace' = Append(trace, [kernel |-> "sample_nf", key |-> rng_keys_nf,
                                     stream |-> "nf", round |-> 0])
    /\ phase' = "None"
    /\ rounds' = <<>>
    /\ calls' = Append(calls, "sample_flow")
    /\ UNCHANGED <<used, self_rest, summary, pc, frame>>

\* lines 308-312
GetSamplerState ==
    /\ CanCall
    /\ \E training \in BOOLEAN :
          ret' = [summary |-> IF training THEN "training" ELSE "production"]
    /\ phase' = "None"
    /\ rounds' = <<>>
    /\ calls' = Append(calls, "get_sampler_state")
    /\ UNCHANGED <<used, self_rest, summary, pc, frame, trace>>

\* Reset with a fault: the MCMC key is advanced
ResetRekeyed ==
    /\ CanReset
    /\ summary' = EmptySummary(config)
    /\ rng_keys_mcmc' = NextKey(rng_keys_mcmc)
    /\ ret' = "None"
    /\ phase' = "None"
    /\ rounds' = <<>>
    /\ calls' = Append(calls, "reset")
    /\ UNCHANGED <<used, config, sampler_params, local_sampler, rng_keys_nf, state,
                   variables, pc, frame, trace>>

\* Reset with a fault: the production summary is forgotten
ResetTrainingOnly ==
    /\ CanReset
    /\ summary' = [summary EXCEPT !.training = EmptySummary(config).training]
    /\ ret' = "None"
    /\ phase' = "None"
    /\ rounds' = <<>>
    /\ calls' = Append(calls, "reset")
    /\ UNCHANGED <<used, self_rest, pc, frame, trace>>

\* Reset with a fault: the flow is re-initialised as well
ResetFlow ==
    /\ CanReset
    /\ summary' = EmptySummary(config)
    /\ state' = [step |-> 0, params |-> 0]
    /\ ret' = "None"
    /\ phase' = "None"
    /\ rounds' = <<>>
    /\ calls' = Append(calls, "reset")
    /\ UNCHANGED <<used, config, sampler_params, local_sampler, rng_keys_mcmc,
                   rng_keys_nf, variables, pc, frame, trace>>

\* lines 324-340
Reset ==
    /\ CanReset
    /\ summary' = EmptySummary(config)
    /\ ret' = "None"
    /\ phase' = "None"
    /\ rounds' = <<>>
    /\ calls' = Append(calls, "reset")
    /\ UNCHANGED <<used, self_rest, pc, frame, trace>>

Next ==
    \/ SampleCall
    \/ SampleLocalTuning
    \/ GlobalTuningIter
    \/ GlobalTuningReturn
    \/ ProductionIter
    \/ ProductionReturn
    \/ SamplingLoopCall
    \/ LoopLocal
    \/ LoopTrain
    \/ LoopGlobal
    \/ LoopAppend
    \/ LocalSamplerTuningCall
    \/ SampleFlow
    \/ GetSamplerState
    \/ Reset

Spec == Init /\ [][Next]_vars

(* ----------- the training step on arbitrary local-sampler output ------- *)
\* keep_quantile values of the selection inputs
SelQuantiles ==
    {[num |-> 0, den |-> 1], [num |-> 1, den |-> 4], [num |-> 1, den |-> 2],
     [num |-> 3, den |-> 4], [num |-> 1, den |-> 1]}

SelConfigs ==
    [n_dim : {NDim}, n_chains : 1..MaxSelChains,
     n_local_steps : 1..MaxSelSteps, n_global_steps : {NGlobalSteps},
     n_loop_training : {1}, n_loop_production : {1},
     n_epochs : {DefaultEpochs}, max_samples : 1..MaxSelSamples,
     batch_size : {DefaultBatchSize}, keep_quantile : SelQuantiles,
     use_global : {TRUE}, local_autotune : {FALSE}, nf_variable : {NoVariable}]

\* the output of a local sampler that leaves chain c at step s at the point
\* with every coordinate c * (MaxSelSteps + 2) + s, which names c and s
SelPositions(cfg) ==
    Array([c \in 1..cfg.n_chains |->
        Array([s \in 1..cfg.n_local_steps |->
            Array([d \in 1..cfg.n_dim |-> c * (MaxSelSteps + 2) + s])])])

\* log-probabilities whose maximum over the steps of chain c is m[c]
SelLogProb(cfg, m) ==
    Array([c \in 1..cfg.n_chains |->
        Array([s \in 1..cfg.n_local_steps |->
            IF s = 1 + (c % cfg.n_local_steps) THEN m[c] ELSE m[c] - 1])])

\* sampling_loop(initial_position, training=True) of a fresh Sampler, at line
\* 179: the local sampler has returned
InitSelect ==
    /\ \E cfg \in SelConfigs :
          /\ Construct(cfg)
          /\ \E ip \in InitialPositions(cfg), m \in [1..cfg.n_chains -> 0..MaxLp] :
                /\ frame = [NoFrame EXCEPT
                              !.caller = "api", !.training = TRUE,
                              !.loop_position = ip,
                              !.positions = SelPositions(cfg),
                              !.log_prob_output = SelLogProb(cfg, m),
                              !.local_acceptance =
                                  Array([c \in 1..cfg.n_chains |->
                                      Array([s \in 1..cfg.n_local_steps |-> 1])])]
                /\ rounds = <<[training |-> TRUE, start |-> ip, last |-> <<>>,
                               caller |-> "api"]>>
    /\ pc = "train"
    /\ phase = "None"
    /\ used = NoneUsed
    /\ ret = "None"
    /\ trace = <<>>
    /\ calls = <<"sampling_loop">>

NextSelect == LoopTrain \/ LoopGlobal \/ LoopAppend

SpecSelect == InitSelect /\ [][NextSelect]_vars

(* ------- construction with an nf_variable, callers' positions --------- *)
\* an nf_variable a caller supplies: mean 1 and variance 2 in every coordinate
SuppliedVariables(n_dim) ==
    [given |-> TRUE,
     value |-> [base_mean |-> Array([d \in 1..n_dim |-> <<1, 1>>]),
                base_cov |-> Array([i \in 1..n_dim |->
                               Array([j \in 1..n_dim |->
                                   <<IF i = j THEN 2 ELSE 0, 1>>])])]]

CallerConfigs ==
    [n_dim : {NDim}, n_chains : {NChains},
     n_local_steps : {NLocalSteps}, n_global_steps : {NGlobalSteps},
     n_loop_training : 0..1, n_loop_production : 0..1,
     n_epochs : {DefaultEpochs}, max_samples : {DefaultMaxSamples},
     batch_size : {DefaultBatchSize}, keep_quantile : {[num |-> 0, den |-> 1]},
     use_global : BOOLEAN, local_autotune : BOOLEAN,
     nf_variable : {NoVariable, SuppliedVariables(NDim)}]

\* the initial positions callers pass, of the Sampler's dimension or of one
\* coordinate more: chain c starts at (c, c, ...)
CallerPositions(cfg) ==
    {Array([c \in 1..cfg.n_chains |-> Array([d \in 1..n |-> c % (MaxPos + 1)])]) :
        n \in {cfg.n_dim, cfg.n_dim + 1}}

InitCaller ==
    /\ \E cfg \in CallerConfigs : Construct(cfg)
    /\ pc = "idle"
    /\ phase = "None"
    /\ frame = NoFrame
    /\ used = NoneUsed
    /\ ret = "None"
    /\ rounds = <<>>
    /\ trace = <<>>
    /\ calls = <<>>

\* a caller invokes sample(initial_position) with a position of its choice
SampleCallAnyDim ==
    /\ CanCall
    /\ \E ip \in CallerPositions(config) :
          frame' = [NoFrame EXCEPT !.initial_position = ip]
    /\ pc' = "sample"
    /\ phase' = "LocalTuning"
    /\ rounds' = <<>>
    /\ calls' = Append(calls, "sample")
    /\ UNCHANGED <<used, self_rest, summary, ret, trace>>

\* a caller invokes sampling_loop(initial_position, training) likewise
SamplingLoopCallAnyDim ==
    /\ CanCall
    /\ \E ip \in CallerPositions(config), training \in BOOLEAN :
          EnterLoop("api", ip, training, <<>>)
    /\ phase' = "None"
    /\ calls' = Append(calls, "sampling_loop")
    /\ UNCHANGED <<self_rest, summary, ret, trace>>

\* the positions of the round in progress have the Sampler's dimension
DimOk == \A c \in DOMAIN frame.positions :
             \A k \in DOMAIN frame.positions[c] :
                 Len(frame.positions[c][k]) = config.n_dim

\* A round on positions of another dimension is followed up to the return of
\* the local sampler: what the array operations after it do is not modelled.
NextCaller ==
    \/ SampleCallAnyDim
    \/ SamplingLoopCallAnyDim
    \/ SampleLocalTuning
    \/ GlobalTuningIter
    \/ GlobalTuningReturn
    \/ ProductionIter
    \/ ProductionReturn
    \/ LoopLocal
    \/ (DimOk /\ LoopTrain)
    \/ (DimOk /\ LoopGlobal)
    \/ (DimOk /\ LoopAppend)

SpecCaller == InitCaller /\ [][NextCaller]_vars

(* ------------- the legacy Sampler of src/nfsampler/utils.py ----------- *)
\* In this specification config, rng_keys_mcmc, rng_keys_nf and state are the
\* attributes of the legacy Sampler, sampler_params is its stepsize, frame
\* holds the locals of sample (and, under loop, of sampling_loop), rounds logs
\* what every sampling_loop call was given and returned, and ret is what
\* sample returned. The legacy kernels take no normalisation variables.
LegacyConfigs ==
    [n_dim : {NDim}, n_chains : 1..NChains, n_loop : 0..MaxLoop,
     n_local_steps : 1..NLocalSteps, n_global_steps : {NGlobalSteps},
     n_epochs : {DefaultEpochs}, batch_size : {DefaultBatchSize},
     n_nf_samples : FlowSampleCounts, d_likelihood : BOOLEAN]

NoResult == [returned |-> FALSE, raised |-> FALSE]

\* lines 60-73
InitLegacy ==
    /\ config \in LegacyConfigs
    /\ sampler_params = 1
    /\ local_sampler = [likelihood |-> "likelihood", tuned |-> 0]
    /\ rng_keys_mcmc = 0
    /\ rng_keys_nf = 0
    /\ state = [step |-> 0, params |-> 0]
    /\ variables = <<>>
    /\ summary = <<>>
    /\ pc = "idle"
    /\ phase = "None"
    /\ frame = NoFrame
    /\ used = NoneUsed
    /\ ret = NoResult
    /\ rounds = <<>>
    /\ trace = <<>>
    /\ calls = <<>>

\* what no legacy action changes
legacy_rest == <<config, sampler_params, local_sampler, rng_keys_mcmc, rng_keys_nf, state,
                 variables, summary, phase, used, trace>>

\* lines 84-92: sample(initial_position) up to the for loop
LegacySampleCall ==
    /\ CanCall
    /\ \E ip \in InitialPositions(config) :
          frame' = [last_step |-> ip, chains |-> <<>>, local_accs |-> <<>>,
                    global_accs |-> <<>>, loss_vals |-> <<>>,
                    rng_keys_nf |-> rng_keys_nf, rng_keys_mcmc |-> rng_keys_mcmc,
                    state |-> state, i |-> 0, loop |-> <<>>]
    /\ pc' = "legacy_for"
    /\ ret' = NoResult
    /\ rounds' = <<>>
    /\ calls' = Append(calls, "sample")
    /\ UNCHANGED legacy_rest

\* lines 94-96: the for loop has another element, sampling_loop is entered
\* with the locals of sample as its arguments
LegacyLoopEnter ==
    /\ pc = "legacy_for"
    /\ frame.i < config.n_loop
    /\ frame' = [frame EXCEPT !.loop = [rng_keys_nf |-> frame.rng_keys_nf,
                                        rng_keys_mcmc |-> frame.rng_keys_mcmc,
                                        state |-> frame.state,
                                        initial_position |-> frame.last_step]]
    /\ rounds' = Append(rounds, [rng_keys_nf |-> frame.rng_keys_nf,
                                 rng_keys_mcmc |-> frame.rng_keys_mcmc,
                                 state |-> frame.state,
                                 start |-> frame.last_step,
                                 returned |-> <<>>])
    /\ pc' = "legacy_local"
    /\ UNCHANGED <<legacy_rest, ret, calls>>

\* lines 129-136: the local sampler call, with or without d_likelihood
LegacyLocal ==
    /\ pc = "legacy_local"
    /\ LET l == frame.loop
           r == IF config.d_likelihood
                THEN LocalSamplerKernel(l.rng_keys_mcmc, config.n_local_steps,
                                        l.initial_position, sampler_params)
                ELSE LocalSamplerKernel(l.rng_keys_mcmc, config.n_local_steps,
                                        l.initial_position, sampler_params)
       IN  frame' = [frame EXCEPT !.loop = [rng_keys_nf |-> l.rng_keys_nf,
                                            rng_keys_mcmc |-> r.key,
                                            state |-> l.state,
                                            initial_position |-> l.initial_position,
                                            positions |-> r.positions,
                                            local_acceptance |-> r.acceptance]]
    /\ pc' = "legacy_train"
    /\ UNCHANGED <<legacy_rest, ret, rounds, calls>>

\* lines 138-140: train_flow on all the local positions
LegacyTrain ==
    /\ pc = "legacy_train"
    /\ LET l == frame.loop
           r == TrainFlowKernel(l.rng_keys_nf, l.state, <<>>, Flatten(l.positions),
                                config.n_epochs, config.batch_size)
       IN  frame' = [frame EXCEPT !.loop = [rng_keys_nf |-> r.key,
                                            rng_keys_mcmc |-> l.rng_keys_mcmc,
                                            state |-> r.state,
                                            initial_position |-> l.initial_position,
                                            positions |-> l.positions,
                                            local_acceptance |-> l.local_acceptance,
                                            loss_values |-> r.loss]]
    /\ pc' = "legacy_global"
    /\ UNCHANGED <<legacy_rest, ret, rounds, calls>>

\* lines 142-150: what sampling_loop returns
LegacyLoopResult ==
    LET l == frame.loop
        r == GlobalSamplerKernel(l.rng_keys_nf, config.n_global_steps, l.state.params,
                                 <<>>, LastStep(l.positions))
    IN  [rng_keys_nf |-> r.key, rng_keys_mcmc |-> l.rng_keys_mcmc, state |-> l.state,
         positions |-> AppendSteps(l.positions, r.nf_chain),
         local_acceptance |-> l.local_acceptance,
         global_acceptance |-> r.acceptance,
         loss_values |-> l.loss_values]

\* LegacyResume with a fault: every round gets the flow state sample began with
LegacyResumeStaleState(r) ==
    [frame EXCEPT !.rng_keys_nf = r.rng_keys_nf,
                  !.rng_keys_mcmc = r.rng_keys_mcmc,
                  !.last_step = LastStep(r.positions),
                  !.chains = Append(@, r.positions),
                  !.local_accs = Append(@, r.local_acceptance),
                  !.global_accs = Append(@, r.global_acceptance),
                  !.loss_vals = Append(@, r.loss_values),
                  !.i = @ + 1,
                  !.loop = <<>>]

\* lines 95-101: the locals of sample after sampling_loop returned r
LegacyResume(r) ==
    [frame EXCEPT !.rng_keys_nf = r.rng_keys_nf,
                  !.rng_keys_mcmc = r.rng_keys_mcmc,
                  !.state = r.state,
                  !.last_step = LastStep(r.positions),
                  !.chains = Append(@, r.positions),
                  !.local_accs = Append(@, r.local_acceptance),
                  !.global_accs = Append(@, r.global_acceptance),
                  !.loss_vals = Append(@, r.loss_values),
                  !.i = @ + 1,
                  !.loop = <<>>]

\* lines 142-150 and 95-101: the global sampler call, the return of
\* sampling_loop and the bookkeeping of sample
LegacyGlobal ==
    /\ pc = "legacy_global"
    /\ frame' = LegacyResume(LegacyLoopResult)
    /\ rounds' = [rounds EXCEPT ![Len(rounds)].returned = LegacyLoopResult]
    /\ pc' = "legacy_for"
    /\ UNCHANGED <<legacy_rest, ret, calls>>

\* jnp.concatenate(list, axis=1) of arrays (n_chains, steps, ...)
ConcatenateAxis1(list, n_chains) ==
    Array([c \in 1..n_chains |-> Flatten([i \in 1..Len(list) |-> list[i][c]])])

\* jnp.stack(list, axis=1).reshape(n_chains, -1) of arrays (n_chains, steps)
StackReshape(list, n_chains) ==
    LET stacked == Array([c \in 1..n_chains |->
                       Array([i \in 1..Len(list) |-> list[i][c]])])
    IN  Array([c \in 1..n_chains |-> Flatten(stacked[c])])

\* lines 104-110: the loop is over; jnp.concatenate of an empty list raises
LegacyReturn ==
    /\ pc = "legacy_for"
    /\ ~(frame.i < config.n_loop)
    /\ ret' = IF frame.chains = <<>>
              THEN [returned |-> FALSE, raised |-> TRUE]
              ELSE [returned |-> TRUE, raised |-> FALSE,
                    chains |-> ConcatenateAxis1(frame.chains, config.n_chains),
                    nf_samples |-> SampleNfKernel(frame.state.params, frame.rng_keys_nf,
                                                  config.n_nf_samples, <<>>,
                                                  config.n_dim),
                    local_accs |-> StackReshape(frame.local_accs, config.n_chains),
                    global_accs |-> StackReshape(frame.global_accs, config.n_chains),
                    loss_vals |-> Flatten(frame.loss_vals)]
    /\ frame' = NoFrame
    /\ pc' = "idle"
    /\ UNCHANGED <<legacy_rest, rounds, calls>>

NextLegacy ==
    \/ LegacySampleCall
    \/ LegacyLoopEnter
    \/ LegacyLocal
    \/ LegacyTrain
    \/ LegacyGlobal
    \/ LegacyReturn

SpecLegacy == InitLegacy /\ [][NextLegacy]_vars

(* ------------------------------ properties ---------------------------- *)
PhaseRank(p) ==
    CASE p = "LocalTuning" -> 1
      [] p = "GlobalTuning" -> 2
      [] p = "Production" -> 3
      [] p = "Done" -> 4
      [] OTHER -> 0

\* the number of training rounds sample() runs
TrainingRounds == IF config.use_global THEN config.n_loop_training ELSE 0

RoundsInOrder == \A i \in 1..Len(rounds) : rounds[i].training = (i <= TrainingRounds)

RoundsCompleted(n) == \A i \in 1..n : rounds[i].last # <<>>

PhaseLog ==
    /\ phase = "LocalTuning" => rounds = <<>>
    /\ phase = "GlobalTuning" =>
          /\ config.use_global
          /\ Len(rounds) <= config.n_loop_training
          /\ RoundsInOrder
    /\ phase = "Production" =>
          /\ RoundsInOrder
          /\ Len(rounds) >= TrainingRounds
          /\ Len(rounds) <= TrainingRounds + config.n_loop_production
          /\ RoundsCompleted(TrainingRounds)
    /\ phase = "Done" =>
          /\ RoundsInOrder
          /\ Len(rounds) = TrainingRounds + config.n_loop_production
          /\ RoundsCompleted(Len(rounds))

\* C1: sample(initial_position) goes through LocalTuning, then GlobalTuning
\* (only with use_global, n_loop_training rounds with training on), then
\* Production (n_loop_production rounds with training off), then Done, and
\* never steps back to an earlier phase.
C1_PhaseOrder ==
    [][/\ pc # "idle" => PhaseRank(phase') >= PhaseRank(phase)
       /\ (phase = "LocalTuning" /\ phase' # phase) =>
              phase' = IF config.use_global THEN "GlobalTuning" ELSE "Production"
       /\ (phase = "GlobalTuning" /\ phase' # phase) =>
              (phase' = "Production" /\ Len(rounds) = config.n_loop_training)
       /\ (phase = "Production" /\ phase' # phase) => phase' = "Done"
       /\ PhaseLog']_vars

C1_Witness ==
    /\ phase = "Done"
    /\ config.use_global
    /\ config.n_loop_training = 2
    /\ config.n_loop_production = 2
    /\ Len(rounds) = 4

C1_WitnessLocalOnly ==
    /\ phase = "Done"
    /\ ~config.use_global
    /\ config.n_loop_training = 2
    /\ Len(rounds) = config.n_loop_production

\* C2: every production round starts from the last position of the round
\* before it (the first one from the position production_run was given).
C2_ProductionChained ==
    \A i \in 1..Len(rounds) :
        rounds[i].caller = "production_run" =>
            /\ (i = 1 /\ pc # "idle") => rounds[i].start = frame.initial_position
            /\ i > 1 => rounds[i].start = rounds[i - 1].last

\* C3: every training round starts from the last position of the training
\* round before it (the first one from the initial position), and the
\* position a round hands on is the last step of its concatenated chain.
C3_TrainingChained ==
    /\ \A i \in 1..Len(rounds) :
          rounds[i].caller = "global_sampler_tuning" =>
              /\ (i = 1 /\ pc # "idle") => rounds[i].start = frame.initial_position
              /\ i > 1 => rounds[i].start = rounds[i - 1].last
    /\ (pc = "train" /\ frame.caller = "global_sampler_tuning") =>
          trace[Len(trace)].initial_position = rounds[Len(rounds)].start
    /\ (pc = "global_sampler_tuning" /\ Len(rounds) > 0) =>
          /\ rounds[Len(rounds)].last = LastStep(summary.training.chains)
          /\ frame.last_step = rounds[Len(rounds)].last

C3_Witness ==
    /\ Len(rounds) >= 2
    /\ rounds[2].caller = "global_sampler_tuning"
    /\ rounds[2].start # rounds[1].start
    /\ rounds[2].last # <<>>

\* sample() was called on a summary that is empty
FreshSample ==
    /\ Len(calls) >= 1
    /\ calls[Len(calls)] = "sample"
    /\ Len(calls) > 1 => calls[Len(calls) - 1] = "reset"

ShapeOf(acc, n_loops) ==
    /\ DOMAIN acc.chains = 1..config.n_chains
    /\ \A c \in 1..config.n_chains :
          /\ Len(acc.chains[c]) =
                 config.n_local_steps * n_loops + config.n_global_steps * n_loops
          /\ \A k \in 1..Len(acc.chains[c]) : Len(acc.chains[c][k]) = config.n_dim

\* C4: after a sample() with use_global on an empty summary, the training
\* chains have shape (n_chains, n_local_steps * n_loop_training +
\* n_global_steps * n_loop_training, n_dim), the production chains the same
\* with n_loop_production, and the production summary has no loss_vals.
C4_SummaryShapes ==
    (phase = "Done" /\ config.use_global /\ FreshSample) =>
        /\ ShapeOf(summary.training, config.n_loop_training)
        /\ ShapeOf(summary.production, config.n_loop_production)
        /\ "loss_vals" \notin DOMAIN summary.production
        /\ "loss_vals" \in DOMAIN summary.training

C4_Witness ==
    /\ phase = "Done"
    /\ config.use_global
    /\ FreshSample
    /\ Len(calls) = 2
    /\ config.n_loop_training = 2
    /\ config.n_loop_production = 1
    /\ Len(summary.production.chains[1]) = config.n_local_steps + config.n_global_steps

\* the samples of the retained chains, before the cap
PoolSize == Len(frame.cut_chains) * config.n_local_steps

\* C5: when the retained chains hold more than max_samples samples, the
\* training pool is the most recent steps of every retained chain and holds
\* at most max_samples samples.
C5_PoolCapped ==
    (pc = "global" /\ PoolSize > config.max_samples) =>
        /\ \E k \in 0..config.n_local_steps :
              frame.flat_chain =
                  Flatten([i \in 1..Len(frame.cut_chains) |->
                              SubSeq(frame.cut_chains[i],
                                     config.n_local_steps - k + 1,
                                     config.n_local_steps)])
        /\ Len(frame.flat_chain) <= config.max_samples

\* C6: no kernel call receives a key of its stream that an earlier kernel
\* call has received.
C6_KeysNotReused ==
    \A i, j \in 1..Len(trace) :
        (i < j /\ trace[i].stream = trace[j].stream) => trace[i].key # trace[j].key

\* C7: in a training round the pool is standardised with, the trainer is
\* given, and the global sampler is given the mean and covariance computed
\* from the pool of this round, and the global sampler is given the parameters
\* the trainer of this round returned.
C7_RoundConsistent ==
    /\ used.trainer # <<>> => used.trainer.variables = used.norm
    /\ (used.trainer # <<>> /\ pc \in {"global", "append"}) =>
          /\ frame.training
          /\ used.norm = NewVariables(used.norm, frame.flat_chain, config.n_dim)
    /\ (pc = "append" /\ frame.training /\ config.use_global) =>
          (used.trainer # <<>> /\ used.proposal # <<>>)
    /\ (used.trainer # <<>> /\ used.proposal # <<>>) =>
          /\ used.proposal.variables = used.norm
          /\ used.proposal.params = used.trained.params

C7_Witness ==
    /\ used.trainer # <<>>
    /\ used.proposal # <<>>
    /\ Len(rounds) = 2
    /\ used.norm # InitVariables(config.n_dim)
    /\ used.trained.params # used.trainer.state.params

\* C8: the flow state and the normalisation change only in the training step
\* of a round with training on; the global sampler of a round with training
\* off is given the pair as it stands, and leaves it alone.
C8_FlowPairFrame ==
    [][/\ (state' # state \/ variables' # variables) =>
              (pc = "train" /\ frame.training /\ pc' = "global")
       /\ (pc = "global" /\ ~frame.training) =>
              /\ used'.proposal.params = state.params
              /\ used'.proposal.variables = variables]_vars

C8_Witness ==
    /\ pc = "append"
    /\ ~frame.training
    /\ frame.caller = "production_run"
    /\ used.proposal # <<>>
    /\ state.step > 0
    /\ variables # InitVariables(config.n_dim)

\* the largest log-probability of each chain over the local steps
SelMax == [c \in 1..config.n_chains |-> MaxOf(frame.log_prob_output[c])]

\* the chains strictly above the keep_quantile quantile of SelMax
SelKept ==
    IF config.keep_quantile.num > 0
    THEN {c \in 1..config.n_chains :
             SelMax[c] * config.keep_quantile.den
                 > QuantileScaled(SelMax, config.keep_quantile)}
    ELSE 1..config.n_chains

\* C9: with keep_quantile > 0 the training step retains exactly the chains
\* whose largest log-probability is strictly above the keep_quantile quantile
\* of the per-chain maxima; with keep_quantile = 0 it retains every chain.
C9_QuantileFilter ==
    pc = "global" =>
        /\ Len(frame.cut_chains) = Cardinality(SelKept)
        /\ {frame.cut_chains[i] : i \in 1..Len(frame.cut_chains)}
               = {frame.positions[c] : c \in SelKept}

C9_Witness ==
    /\ pc = "global"
    /\ config.keep_quantile.num > 0
    /\ Len(frame.cut_chains) > 0
    /\ Len(frame.cut_chains) < config.n_chains
    /\ \E c \in 1..config.n_chains :
          SelMax[c] * config.keep_quantile.den
              = QuantileScaled(SelMax, config.keep_quantile)

C9_WitnessAll ==
    /\ pc = "global"
    /\ config.keep_quantile.num = 0
    /\ config.n_chains > 1
    /\ \E c, d \in 1..config.n_chains : SelMax[c] < SelMax[d]

EmptyAccumulator(acc) ==
    \A f \in DOMAIN acc :
        IF f = "loss_vals"
        THEN acc[f] = <<>>
        ELSE /\ DOMAIN acc[f] = 1..config.n_chains
             /\ \A c \in 1..config.n_chains : acc[f][c] = <<>>

\* C10: reset() leaves both summaries empty and changes nothing else of the
\* sampler: keys, sampler parameters, flow state and normalisation stay.
C10_ResetFrame ==
    [][calls' = Append(calls, "reset") =>
          /\ EmptyAccumulator(summary'.training)
          /\ EmptyAccumulator(summary'.production)
          /\ UNCHANGED self_rest]_vars

C10_Witness ==
    /\ Len(calls) = 2
    /\ calls[1] = "sample"
    /\ calls[2] = "reset"
    /\ state.step > 0
    /\ rng_keys_mcmc > 0
    /\ summary = EmptySummary(config)

\* C11: reset() is idempotent: a reset() leaves the summary a freshly
\* constructed Sampler has, which a further reset() would leave again, and a
\* reset() that follows a reset() changes nothing the Sampler holds.
C11_ResetIdempotent ==
    [][calls' = Append(calls, "reset") =>
          /\ summary' = EmptySummary(config')
          /\ (Len(calls) > 0 /\ calls[Len(calls)] = "reset") =>
                 UNCHANGED <<summary, self_rest>>]_vars

C11_Witness ==
    /\ Len(calls) = 3
    /\ calls[1] = "sample"
    /\ calls[2] = "reset"
    /\ calls[3] = "reset"
    /\ state.step > 0
    /\ summary = EmptySummary(config)

\* C12: no sampling round is started with an initial position whose
\* dimension differs from n_dim: such a position is refused as a
\* configuration error.
C12_DimensionChecked ==
    \A i \in 1..Len(rounds) :
        \A c \in DOMAIN rounds[i].start : Len(rounds[i].start[c]) = config.n_dim

\* C13: the flow's normalisation variables are the nf_variable given to the
\* constructor, until the first training round overwrites them.
C13_SuppliedVariablesKept ==
    (config.nf_variable.given /\ state.step = 0) =>
        variables = config.nf_variable.value

\* C14: sample(initial_position) returns the results of the run to its
\* caller.
C14_SampleReturns == phase = "Done" => ret # "None"

\* a round is in progress
InRound == pc \in {"local", "train", "global", "append"}

\* the kernel the last entry of the trace records
LastKernel(t) == t[Len(t)].kernel

\* C15: within a round the local sampler call comes first; in a training
\* round with use_global the selection, the new normalisation variables and
\* the flow training come next; the global sampler call comes after that and
\* starts from the last local position of every chain; the summary append
\* comes last; and a round starts only when no round is in progress and
\* the round before it has appended its results.
C15_StepOrder ==
    [][/\ pc = "local" =>
              /\ pc' = IF config.use_global
                       THEN (IF frame.training THEN "train" ELSE "global")
                       ELSE "append"
              /\ Len(trace') = Len(trace) + 1
              /\ LastKernel(trace') = "local_sampler"
              /\ summary' = summary
       /\ pc = "train" =>
              /\ pc' = "global"
              /\ LastKernel(trace) = "local_sampler"
              /\ Len(trace') = Len(trace) + 1
              /\ LastKernel(trace') = "nf_training_loop"
              /\ frame'.positions = frame.positions
              /\ variables' = NewVariables(variables, frame'.flat_chain, config.n_dim)
              /\ summary'.training.chains = summary.training.chains
       /\ pc = "global" =>
              /\ pc' = "append"
              /\ LastKernel(trace) =
                     IF frame.training THEN "nf_training_loop" ELSE "local_sampler"
              /\ Len(trace') = Len(trace) + 1
              /\ LastKernel(trace') = "global_sampler"
              /\ \A c \in 1..config.n_chains :
                    /\ Len(frame.positions[c]) = config.n_local_steps
                    /\ used'.proposal.initial_position[c]
                           = frame.positions[c][config.n_local_steps]
              /\ summary' = summary
       /\ pc = "append" =>
              /\ ~InRound'
              /\ LastKernel(trace) =
                     IF config.use_global THEN "global_sampler" ELSE "local_sampler"
              /\ trace' = trace
              /\ summary' # summary
              /\ rounds'[Len(rounds')].last # <<>>
       /\ (pc' = "local") =>
              /\ ~InRound
              /\ RoundsCompleted(Len(rounds))
              /\ Len(rounds') = IF pc = "idle" THEN 1 ELSE Len(rounds) + 1]_vars

C15_Witness ==
    /\ pc = "append"
    /\ frame.training
    /\ Len(rounds) = 2
    /\ used.proposal # <<>>
    /\ used.proposal.initial_position # frame.loop_position
    /\ trace[Len(trace) - 1].kernel = "nf_training_loop"

\* C16: a round with training on changes only summary['training'] and a
\* round with training off changes only summary['production'], and the
\* append of a round changes the summary its training flag selects.
C16_OneAccumulator ==
    [][/\ (InRound /\ frame.training) => summary'.production = summary.production
       /\ (InRound /\ ~frame.training) => summary'.training = summary.training
       /\ (pc = "append" /\ frame.training) =>
              summary'.training.chains # summary.training.chains
       /\ (pc = "append" /\ ~frame.training) =>
              summary'.production.chains # summary.production.chains]_vars

C16_Witness ==
    /\ pc = "production_run"
    /\ Len(rounds) > 0
    /\ ~rounds[Len(rounds)].training
    /\ rounds[Len(rounds)].last # <<>>
    /\ summary.training.loss_vals # <<>>
    /\ summary.production.chains[1] # <<>>
    /\ Len(summary.training.chains[1]) # Len(summary.production.chains[1])

\* C17: sampler_params and the local sampler change only in the tuning step
\* before the first round, and only by the autotune: when supplied it is
\* called once per sample() with (local sampler, MCMC key, n_local_steps,
\* initial position, params, max_iter) and what it returns is what every
\* later round passes on; when not supplied nothing changes them.
C17_TuningOnce ==
    [][/\ (sampler_params' # sampler_params \/ local_sampler' # local_sampler) =>
              /\ config.local_autotune
              /\ ~InRound
              /\ pc = "sample" \/ calls' = Append(calls, "local_sampler_tuning")
              /\ Len(trace') = Len(trace) + 1
              /\ LastKernel(trace') = "local_autotune"
              /\ LET a == trace'[Len(trace')]
                     r == AutotuneKernel(a.sampler, a.key, a.n_steps,
                                         a.initial_position, a.params, a.max_iter)
                 IN  /\ sampler_params' = r.params
                     /\ local_sampler' = r.sampler
       /\ pc = "sample" =>
              /\ (Len(trace') = Len(trace) + 1) = config.local_autotune
              /\ ~config.local_autotune => trace' = trace
              /\ config.local_autotune =>
                    LET a == trace'[Len(trace')]
                    IN  /\ a.kernel = "local_autotune"
                        /\ a.sampler = local_sampler
                        /\ a.key = rng_keys_mcmc
                        /\ a.n_steps = config.n_local_steps
                        /\ a.initial_position = frame.initial_position
                        /\ a.params = sampler_params
                        /\ a.max_iter = DefaultMaxIter
       /\ pc = "local" =>
              /\ trace'[Len(trace')].params = sampler_params
              /\ trace'[Len(trace')].sampler = local_sampler]_vars

C17_Witness ==
    /\ phase = "Done"
    /\ Len(calls) = 1
    /\ config.local_autotune
    /\ Len(rounds) >= 3
    /\ Cardinality({i \in 1..Len(trace) : trace[i].kernel = "local_autotune"}) = 1
    /\ \A i \in 1..Len(trace) :
          trace[i].kernel = "local_sampler" =>
              (trace[i].params = sampler_params /\ trace[i].sampler = local_sampler)
    /\ local_sampler.tuned > 0

C17_WitnessNotSupplied ==
    /\ phase = "Done"
    /\ ~config.local_autotune
    /\ Len(rounds) >= 3
    /\ local_sampler.tuned = 0

\* the steps a round records
RoundSteps ==
    config.n_local_steps + (IF config.use_global THEN config.n_global_steps ELSE 0)

\* acc_after is acc_before with n steps appended to every chain
Extends(acc_after, acc_before, n) ==
    \A c \in 1..config.n_chains :
        /\ Len(acc_after.chains[c]) = Len(acc_before.chains[c]) + n
        /\ SubSeq(acc_after.chains[c], 1, Len(acc_before.chains[c]))
               = acc_before.chains[c]

\* C18: the recorded steps of an accumulator never decrease except by
\* reset(), and the append of a round adds n_local_steps (+ n_global_steps
\* with use_global) steps to the accumulator of its mode, after the steps
\* already there: a second sample() appends to the history of the first.
C18_AppendOnly ==
    [][/\ calls' # Append(calls, "reset") =>
              \A c \in 1..config.n_chains :
                  /\ Len(summary'.training.chains[c]) >= Len(summary.training.chains[c])
                  /\ Len(summary'.production.chains[c])
                         >= Len(summary.production.chains[c])
       /\ (pc = "append" /\ frame.training) =>
              Extends(summary'.training, summary.training, RoundSteps)
       /\ (pc = "append" /\ ~frame.training) =>
              Extends(summary'.production, summary.production, RoundSteps)]_vars

C18_Witness ==
    /\ calls = <<"sample", "sample">>
    /\ phase = "Done"
    /\ config.use_global
    /\ config.n_loop_production = 1
    /\ config.n_loop_training = 1
    /\ Len(summary.production.chains[1]) = 2 * RoundSteps
    /\ Len(summary.training.chains[1]) = 2 * RoundSteps

\* the training rounds with use_global whose flow training is done, counted
\* by the loss rows: every one of them but the one in progress has appended
\* RoundSteps steps to the training chains
LossRowsMatchRounds ==
    LET loss == summary.training.loss_vals
        open == IF pc \in {"global", "append"} /\ frame.training THEN 1 ELSE 0
    IN  /\ \A i \in 1..Len(loss) : Len(loss[i]) = config.n_epochs
        /\ ~config.use_global => loss = <<>>
        /\ config.use_global =>
              (Len(loss) - open) * RoundSteps = Len(summary.training.chains[1])

\* C19: the loss history has one row of n_epochs values per training round
\* with use_global since construction or the last reset(): the training step
\* of such a round appends one row, reset() empties the history, and nothing
\* else changes it.
C19_LossRows ==
    [][/\ LossRowsMatchRounds'
       /\ pc = "train" =>
              /\ frame.training /\ config.use_global
              /\ Len(summary'.training.loss_vals)
                     = Len(summary.training.loss_vals) + 1
              /\ SubSeq(summary'.training.loss_vals, 1,
                        Len(summary.training.loss_vals))
                     = summary.training.loss_vals
       /\ calls' = Append(calls, "reset") => summary'.training.loss_vals = <<>>
       /\ (pc # "train" /\ calls' # Append(calls, "reset")) =>
              summary'.training.loss_vals = summary.training.loss_vals]_vars

C19_Witness ==
    /\ phase = "Done"
    /\ config.use_global
    /\ config.n_loop_training = 2
    /\ config.n_loop_production = 2
    /\ Len(calls) = 2
    /\ calls[1] = "reset"
    /\ Len(summary.training.loss_vals) = 2

Consistent(acc) ==
    \A c \in 1..config.n_chains :
        /\ Len(acc.chains[c]) = Len(acc.log_prob[c])
        /\ Len(acc.chains[c]) = Len(acc.local_accs[c]) + Len(acc.global_accs[c])
        /\ Len(acc.local_accs[c]) * (RoundSteps - config.n_local_steps)
               = Len(acc.global_accs[c]) * config.n_local_steps
        /\ ~config.use_global =>
              /\ acc.global_accs[c] = <<>>
              /\ Len(acc.chains[c]) = Len(acc.local_accs[c])

\* C20: in every state each accumulator has as many steps of chains as of
\* log_prob and as of local_accs and global_accs together; without
\* use_global, global_accs stays empty and chains holds local steps only.
C20_AccumulatorsConsistent ==
    /\ Consistent(summary.training)
    /\ Consistent(summary.production)

C20_Witness ==
    /\ pc = "idle"
    /\ config.use_global
    /\ Len(summary.training.chains[1]) = 2 * RoundSteps
    /\ Len(summary.production.chains[1]) = RoundSteps
    /\ Len(summary.production.global_accs[1]) = config.n_global_steps

C20_WitnessLocalOnly ==
    /\ pc = "idle"
    /\ ~config.use_global
    /\ Len(summary.training.chains[1]) = config.n_local_steps
    /\ Len(summary.production.chains[1]) = 2 * config.n_local_steps

\* C21: in every training round at least one chain is retained, so the pool
\* the normalisation variables are computed from and the flow is trained on
\* is not empty.
C21_PoolNotEmpty ==
    pc = "global" =>
        /\ Len(frame.cut_chains) >= 1
        /\ Len(frame.flat_chain) >= 1

\* the steps one legacy round returns
LegacyRoundSteps == config.n_local_steps + config.n_global_steps

\* C22: in the legacy Sampler.sample round i+1 is given the keys and the flow
\* state round i returned and starts from the last position of round i's
\* concatenated local+global chain; the returned chains have
\* n_loop * (n_local_steps + n_global_steps) steps, and local_accs and
\* global_accs have n_local_steps * n_loop and n_global_steps * n_loop
\* entries per chain, the rounds one after the other.
C22_LegacyChained ==
    /\ \A i \in 2..Len(rounds) :
          LET given == rounds[i]
              before == rounds[i - 1].returned
          IN  /\ given.rng_keys_nf = before.rng_keys_nf
              /\ given.rng_keys_mcmc = before.rng_keys_mcmc
              /\ given.state = before.state
              /\ given.start = LastStep(before.positions)
              /\ \A c \in 1..config.n_chains :
                    /\ Len(before.positions[c]) = LegacyRoundSteps
                    /\ given.start[c] = before.positions[c][LegacyRoundSteps]
    /\ ret.returned =>
          /\ Len(rounds) = config.n_loop
          /\ \A c \in 1..config.n_chains :
                /\ Len(ret.chains[c]) = config.n_loop * LegacyRoundSteps
                /\ Len(ret.local_accs[c]) = config.n_local_steps * config.n_loop
                /\ Len(ret.global_accs[c]) = config.n_global_steps * config.n_loop
                /\ \A i \in 1..config.n_loop :
                      LET r == rounds[i].returned
                      IN  /\ SubSeq(ret.chains[c], (i - 1) * LegacyRoundSteps + 1,
                                    i * LegacyRoundSteps) = r.positions[c]
                          /\ SubSeq(ret.local_accs[c],
                                    (i - 1) * config.n_local_steps + 1,
                                    i * config.n_local_steps) = r.local_acceptance[c]
                          /\ SubSeq(ret.global_accs[c],
                                    (i - 1) * config.n_global_steps + 1,
                                    i * config.n_global_steps) = r.global_acceptance[c]

C22_Witness ==
    /\ ret.returned
    /\ config.n_loop = 2
    /\ config.n_chains = 2
    /\ rounds[2].state # rounds[1].state
    /\ rounds[2].start # rounds[1].start
    /\ rounds[2].rng_keys_nf # rounds[1].rng_keys_nf
    /\ rounds[1].returned.local_acceptance # rounds[2].returned.local_acceptance
    /\ ret.local_accs[1] # ret.local_accs[2]

=============================================================================
